---- MODULE Spec2Model ----
(***************************************************************************)
(* A model of the battle engine of MCP_pokemon: BattleSimulator            *)
(* (battle_simulator.py), the type chart of PokemonDataManager             *)
(* (pokemon_data_manager.py) and the records of pokemon_models.py.         *)
(*                                                                         *)
(* Numbers.  The code computes damage in floating point.  The model keeps  *)
(* every quantity as an exact fraction: a type multiplier is a pair        *)
(* <<numerator, denominator>>, a halved attack stat is a numerator over a  *)
(* denominator of 2, and random.uniform(0.9, 1.1) is a percentage drawn    *)
(* from RandomFactors.  int() truncates towards zero (Trunc).              *)
(* Every random.random() < p test is a nondeterministic boolean.           *)
(***************************************************************************)
EXTENDS Integers, Sequences, FiniteSets, TLC

VARIABLES
    bp,       \* bp[1], bp[2]: the two BattlePokemon p1 and p2 of run_simulation
    turn,     \* the local `turn` of run_simulation
    pc,       \* position in run_simulation
    first,    \* index (1 or 2) of `attacker` of the current round (line 131)
    slot,     \* position in the inner for loop (1 or 2) of line 135
    winner,   \* the local `winner` of run_simulation ("" before line 175)
    last,     \* what the last step did (history, for stating properties)
    calc,     \* a single call of _calculate_damage and its use at line 151
    acted     \* acted[c]: the last two actions (attack or rest) of combatant c
              \* in slots where it was not skipped (history)

vars == <<bp, turn, pc, first, slot, winner, last, calc, acted>>

----------------------------------------------------------------------------
(* Bounds of the model *)

\* base hp of the creatures of the roster ranges over 0..MaxHp
MaxHp == 4

\* the damage-function specification draws stats from 0..MaxStat
MaxStat == 2

----------------------------------------------------------------------------
(* pokemon_models.py *)

\* StatusEffect (the enum's values)
NONE == "Healthy"
POISON == "Poisoned"
BURN == "Burned"
PARALYSIS == "Paralyzed"
StatusEffect == {NONE, POISON, BURN, PARALYSIS}

\* Optional[int]: None is the empty sequence, an int n is <<n>>
None == <<>>
Some(n) == <<n>>

\* Move (accuracy and effect are never read by the simulator)
Move(name, type, category, power) ==
    [name |-> name, type |-> type, category |-> category, power |-> power]

\* PokemonStats
PokemonStats(hp, attack, defense, special_attack, special_defense, speed) ==
    [hp |-> hp, attack |-> attack, defense |-> defense,
     special_attack |-> special_attack, special_defense |-> special_defense,
     speed |-> speed]

\* Pokemon (the fields the simulator reads)
Pokemon(name, types, stats, moves_sample) ==
    [name |-> name, types |-> types, stats |-> stats, moves_sample |-> moves_sample]

\* BattlePokemon: status defaults to StatusEffect.NONE
BattlePokemon(pokemon, current_hp, current_energy) ==
    [pokemon |-> pokemon, current_hp |-> current_hp,
     current_energy |-> current_energy, status |-> NONE]

----------------------------------------------------------------------------
(* str.lower(), on the vocabulary of the model: the words that hold an     *)
(* upper-case letter map to their lower-case form, all others are already  *)
(* lower case.                                                             *)
LowerCase ==
    [Electric |-> "electric", Poison |-> "poison", Ground |-> "ground",
     Fire |-> "fire", Normal |-> "normal", Ghost |-> "ghost",
     Water |-> "water", Flying |-> "flying", Rock |-> "rock",
     FIRE |-> "fire", Explosion |-> "explosion", Tackle |-> "tackle",
     Ember |-> "ember", Thunder |-> "thunder", Growl |-> "growl",
     Sparky |-> "sparky", Toxo |-> "toxo", GROUND |-> "ground",
     SPARKY |-> "sparky"]
     @@ ("Self-Destruct" :> "self-destruct") @@ ("Self destruct" :> "self destruct")
     @@ ("Hyper beam" :> "hyper beam") @@ ("Gunk shot" :> "gunk shot") @@ ("Final-Gambit" :> "final-gambit")

Lower(s) == IF s \in DOMAIN LowerCase THEN LowerCase[s] ELSE s

----------------------------------------------------------------------------
(* pokemon_data_manager.py *)

\* self.type_chart, keyed by the target's type and then by the move's type.
\* Each entry is TWICE the multiplier of the source (2.0 is 4, 0.5 is 1,
\* 0.0 is 0), so that every entry is an integer.
type_chart ==
    [normal |->
        [fighting |-> 4, ghost |-> 0],
     fighting |->
        [flying |-> 4, rock |-> 1, bug |-> 1, psychic |-> 4, dark |-> 1, fairy |-> 4],
     flying |->
        [rock |-> 4, bug |-> 1, grass |-> 1, electric |-> 4, ice |-> 4, fighting |-> 1, ground |-> 0],
     poison |->
        [fighting |-> 1, poison |-> 1, ground |-> 4, bug |-> 1, grass |-> 1, psychic |-> 4, fairy |-> 1],
     ground |->
        [water |-> 4, grass |-> 4, ice |-> 4, poison |-> 1, rock |-> 1, electric |-> 0],
     rock |->
        [fighting |-> 4, ground |-> 4, steel |-> 4, water |-> 4, grass |-> 4, normal |-> 1, flying |-> 1, poison |-> 1, fire |-> 1],
     bug |->
        [flying |-> 4, rock |-> 4, fire |-> 4, fighting |-> 1, ground |-> 1, grass |-> 1],
     ghost |->
        [ghost |-> 4, dark |-> 4, normal |-> 0, fighting |-> 0, poison |-> 1, bug |-> 1],
     steel |->
        [fighting |-> 4, ground |-> 4, fire |-> 4, normal |-> 1, flying |-> 1, rock |-> 1, bug |-> 1, steel |-> 1, grass |-> 1, psychic |-> 1, ice |-> 1, dragon |-> 1, fairy |-> 1, poison |-> 0],
     fire |->
        [ground |-> 4, rock |-> 4, water |-> 4, bug |-> 1, steel |-> 1, fire |-> 1, grass |-> 1, ice |-> 1, fairy |-> 1],
     water |->
        [grass |-> 4, electric |-> 4, steel |-> 1, fire |-> 1, water |-> 1, ice |-> 1],
     grass |->
        [flying |-> 4, poison |-> 4, bug |-> 4, fire |-> 4, ice |-> 4, ground |-> 1, water |-> 1, grass |-> 1, electric |-> 1],
     electric |->
        [ground |-> 4, flying |-> 1, steel |-> 1, electric |-> 1],
     psychic |->
        [bug |-> 4, ghost |-> 4, dark |-> 4, fighting |-> 1, psychic |-> 1],
     ice |->
        [fighting |-> 4, rock |-> 4, steel |-> 4, fire |-> 4, ice |-> 1],
     dragon |->
        [ice |-> 4, dragon |-> 4, fairy |-> 4, fire |-> 1, water |-> 1, grass |-> 1, electric |-> 1],
     dark |->
        [fighting |-> 4, bug |-> 4, fairy |-> 4, ghost |-> 1, dark |-> 1, psychic |-> 0],
     fairy |->
        [poison |-> 4, steel |-> 4, fighting |-> 1, bug |-> 1, dark |-> 1, dragon |-> 0]]

\* a multiplier is the fraction num/den; TimesEntry multiplies it by a chart
\* entry (twice a multiplier, hence the doubled denominator)
One == [num |-> 1, den |-> 1]
TimesEntryOverwriting(m, entry) == [num |-> entry, den |-> 2]
TimesEntry(m, entry) == [num |-> m.num * entry, den |-> m.den * 2]

\* the for loop of get_type_effectiveness over target_types[i..]
RECURSIVE EffectivenessFrom(_, _, _, _)
EffectivenessFrom(multiplier, move_type, target_types, i) ==
    IF i > Len(target_types) THEN multiplier
    ELSE LET target_type == Lower(target_types[i])
             hit == /\ target_type \in DOMAIN type_chart
                    /\ move_type \in DOMAIN type_chart[target_type]
         IN EffectivenessFrom(
                IF hit THEN TimesEntry(multiplier, type_chart[target_type][move_type])
                       ELSE multiplier,
                move_type, target_types, i + 1)

get_type_effectiveness(move_type, target_types) ==
    EffectivenessFrom(One, Lower(move_type), target_types, 1)

----------------------------------------------------------------------------
(* battle_simulator.py: the damage model *)

\* random.uniform(0.9, 1.1), in percent: the two ends and the middle
RandomFactorLow == 90
RandomFactorHigh == 110
RandomFactors == {RandomFactorLow, 100, RandomFactorHigh}

\* the denominator's "shock absorber" of line 35
DefensePad == 50

\* int(x) of the fraction n/d, d > 0: truncation towards zero
Trunc(n, d) == IF n >= 0 THEN n \div d ELSE -((-n) \div d)

Max(a, b) == IF a >= b THEN a ELSE b
Min(a, b) == IF a <= b THEN a ELSE b

NoPowerOnlyNone(move) == move.power = None

\* `not move.power or move.power == 0`
NoPower(move) == move.power = None \/ move.power[1] = 0

NoFloor(final_damage) == final_damage

\* max(1, final_damage) of line 49
FloorAtOne(final_damage) == Max(1, final_damage)

\* _calculate_damage with the value rf (percent) drawn for random_factor
_calculate_damage(attacker, defender, move, rf) ==
    IF NoPower(move) THEN [damage |-> 0, text |-> ""]
    ELSE
    LET physical == move.category = "physical"
        attack_stat == IF physical THEN attacker.pokemon.stats.attack
                       ELSE attacker.pokemon.stats.special_attack
        defense_stat == IF physical THEN defender.pokemon.stats.defense
                        ELSE defender.pokemon.stats.special_defense
        \* attack_stat /= 2 for a burned attacker's physical move
        attack_den == IF attacker.status = BURN /\ physical THEN 2 ELSE 1
        target_types == [i \in 1..Len(defender.pokemon.types) |->
                            Lower(defender.pokemon.types[i])]
        eff == get_type_effectiveness(move.type, target_types)
        \* base_damage * effectiveness_multiplier * random_factor
        \*   = power * (attack/(defense+50)) * 1.5 * eff * rf
        num == move.power[1] * attack_stat * 3 * eff.num * rf
        den == attack_den * (defense_stat + DefensePad) * 2 * eff.den * 100
        final_damage == Trunc(num, den)
        effectiveness_text ==
            IF eff.num > eff.den THEN "It's super effective!"
            ELSE IF eff.num < eff.den THEN "It's not very effective..."
            ELSE ""
    IN [damage |-> FloorAtOne(final_damage), text |-> effectiveness_text]

CostWithInclusiveBands(move) ==
    IF NoPower(move) \/ move.power[1] <= 40 THEN 10
    ELSE IF move.power[1] <= 70 THEN 20
    ELSE IF move.power[1] <= 100 THEN 30
    ELSE 40

\* _get_move_energy_cost
_get_move_energy_cost(move) ==
    IF NoPower(move) \/ move.power[1] < 40 THEN 10
    ELSE IF move.power[1] < 70 THEN 20
    ELSE IF move.power[1] < 100 THEN 30
    ELSE 40

----------------------------------------------------------------------------
(* battle_simulator.py: the move selector *)

SacrificialWithoutExplosion == {"self-destruct", "final-gambit"}

\* sacrificial_moves of _select_move
sacrificial_moves == {"self-destruct", "explosion", "final-gambit"}

UsableIgnoringEnergy(attacker, i) ==
    Lower(attacker.pokemon.moves_sample[i].name) \notin sacrificial_moves

UsableIgnoringNames(attacker, i) ==
    _get_move_energy_cost(attacker.pokemon.moves_sample[i]) <= attacker.current_energy

\* the condition of the list comprehension of lines 62-66, for moves_sample[i]
Usable(attacker, i) ==
    LET m == attacker.pokemon.moves_sample[i]
    IN /\ _get_move_energy_cost(m) <= attacker.current_energy
       /\ Lower(m.name) \notin sacrificial_moves

\* the indices i..n of moves_sample, in order, that pass the test of Usable
RECURSIVE IndicesFrom(_, _, _)
IndicesFrom(attacker, n, i) ==
    IF i > n THEN <<>>
    ELSE (IF Usable(attacker, i) THEN <<i>> ELSE <<>>) \o IndicesFrom(attacker, n, i + 1)

\* usable_moves, as the indices into attacker.pokemon.moves_sample
usable_moves(attacker) == IndicesFrom(attacker, Len(attacker.pokemon.moves_sample), 1)

RECURSIVE BestFromLastMax(_, _, _, _, _, _, _)
BestFromLastMax(attacker, opponent, usable, rfs, k, best_move, max_damage) ==
    IF k > Len(usable) THEN best_move
    ELSE LET move == attacker.pokemon.moves_sample[usable[k]]
             potential_damage == _calculate_damage(attacker, opponent, move, rfs[k]).damage
         IN IF potential_damage >= max_damage
            THEN BestFromLastMax(attacker, opponent, usable, rfs, k + 1, usable[k], potential_damage)
            ELSE BestFromLastMax(attacker, opponent, usable, rfs, k + 1, best_move, max_damage)

\* the for loop of lines 72-76 over usable[k..]; rfs[k] is the random factor
\* drawn by the k-th call of _calculate_damage
RECURSIVE BestFrom(_, _, _, _, _, _, _)
BestFrom(attacker, opponent, usable, rfs, k, best_move, max_damage) ==
    IF k > Len(usable) THEN best_move
    ELSE LET move == attacker.pokemon.moves_sample[usable[k]]
             potential_damage == _calculate_damage(attacker, opponent, move, rfs[k]).damage
         IN IF potential_damage > max_damage
            THEN BestFrom(attacker, opponent, usable, rfs, k + 1, usable[k], potential_damage)
            ELSE BestFrom(attacker, opponent, usable, rfs, k + 1, best_move, max_damage)

\* _select_move: the index of the chosen move in moves_sample, 0 for None
_select_move(attacker, opponent, rfs) ==
    LET usable == usable_moves(attacker)
    IN IF usable = <<>> THEN 0
       ELSE BestFrom(attacker, opponent, usable, rfs, 1, usable[1], 0)

----------------------------------------------------------------------------
(* battle_simulator.py: the status engine *)

StatusSwapped(move, defender, roll) ==
    IF defender.status # NONE THEN defender.status
    ELSE LET move_type == Lower(move.type)
         IN IF move_type = "poison" /\ roll THEN POISON
            ELSE IF move_type = "fire" /\ roll THEN PARALYSIS
            ELSE IF move_type = "electric" /\ roll THEN BURN
            ELSE defender.status

StatusOverwriting(move, defender, roll) ==
    LET move_type == Lower(move.type)
    IN IF move_type = "poison" /\ roll THEN POISON
       ELSE IF move_type = "fire" /\ roll THEN BURN
       ELSE IF move_type = "electric" /\ roll THEN PARALYSIS
       ELSE defender.status

\* _apply_status_effect: the defender's status after the call; roll is the
\* outcome of the one random.random() < p test the move's type reaches
_apply_status_effect(move, defender, roll) ==
    IF defender.status # NONE THEN defender.status
    ELSE LET move_type == Lower(move.type)
         IN IF move_type = "poison" /\ roll THEN POISON
            ELSE IF move_type = "fire" /\ roll THEN BURN
            ELSE IF move_type = "electric" /\ roll THEN PARALYSIS
            ELSE defender.status

PreTurnAnyCondition(pokemon, roll) == ~(pokemon.status # NONE /\ roll)

\* _handle_pre_turn_status: can_move
_handle_pre_turn_status(pokemon, roll) == ~(pokemon.status = PARALYSIS /\ roll)

\* the divisors of _handle_post_turn_status
PoisonDivisor == 8
BurnDivisor == 16

TickFromCurrentHp(pokemon) ==
    IF pokemon.status = POISON
    THEN Max(0, pokemon.current_hp - Max(1, pokemon.current_hp \div PoisonDivisor))
    ELSE IF pokemon.status = BURN
    THEN Max(0, pokemon.current_hp - Max(1, pokemon.current_hp \div BurnDivisor))
    ELSE pokemon.current_hp

\* _handle_post_turn_status: the combatant's current_hp after the call
_handle_post_turn_status(pokemon) ==
    IF pokemon.status = POISON
    THEN Max(0, pokemon.current_hp - Max(1, pokemon.pokemon.stats.hp \div PoisonDivisor))
    ELSE IF pokemon.status = BURN
    THEN Max(0, pokemon.current_hp - Max(1, pokemon.pokemon.stats.hp \div BurnDivisor))
    ELSE pokemon.current_hp

----------------------------------------------------------------------------
(* The creatures a battle is run between *)

Tackle == Move("Tackle", "normal", "physical", Some(40))
Thunder == Move("Thunder", "electric", "special", Some(110))
GunkShot == Move("Gunk shot", "poison", "physical", Some(120))
Ember == Move("Ember", "FIRE", "special", Some(40))
HyperBeam == Move("Hyper beam", "normal", "special", Some(150))
Explosion == Move("Explosion", "normal", "physical", Some(250))
SelfDestruct == Move("Self-Destruct", "normal", "physical", Some(200))
Growl == Move("Growl", "normal", "status", None)

\* the creatures with base hp `hp`
Templates(hp) ==
    { Pokemon("Sparky", <<"Electric">>, PokemonStats(hp, 1, 0, 1, 0, 2),
              <<Thunder, Tackle>>),
      Pokemon("Toxo", <<"Poison", "Ground">>, PokemonStats(hp, 0, 0, 0, 0, 1),
              <<Explosion, GunkShot, Ember>>),
      Pokemon("Blaze", <<"Fire">>, PokemonStats(hp, 0, 1, 0, 1, 2),
              <<Ember, HyperBeam>>),
      Pokemon("Idle", <<"Normal">>, PokemonStats(hp, 1, 1, 1, 1, 0),
              <<SelfDestruct>>),
      Pokemon("Growler", <<"Ghost">>, PokemonStats(hp, 0, 0, 0, 0, 3),
              <<Growl>>) }

Roster == UNION { Templates(hp) : hp \in 0..MaxHp }

----------------------------------------------------------------------------
(* battle_simulator.py: run_simulation *)

StartEnergy == 100
MaxEnergy == 100
RestEnergySmall == StartEnergy \div 10
RestEnergy == 50
MaxTurns == 50

p1 == bp[1]
p2 == bp[2]

Other(a) == 3 - a

\* current_attacker of the running iteration of the inner for loop
Actor == IF slot = 1 THEN first ELSE Other(first)

Step(kind, actor, move, damage) ==
    [kind |-> kind, actor |-> actor, move |-> move, damage |-> damage]

NoCalc == [phase |-> "off"]

\* nobody has acted yet
NoAction == <<<<>>, <<>>>>

\* acted, after combatant a has used its slot for an action of the given kind
Noted(a, kind) ==
    [acted EXCEPT ![a] = IF Len(@) < 2 THEN Append(@, kind) ELSE <<@[2], kind>>]

\* lines 118-122
Init ==
    /\ \E p1_data \in Roster, p2_data \in Roster :
          bp = <<BattlePokemon(p1_data, p1_data.stats.hp, StartEnergy),
                 BattlePokemon(p2_data, p2_data.stats.hp, StartEnergy)>>
    /\ turn = 0
    /\ pc = "while"
    /\ first = 0
    /\ slot = 0
    /\ winner = ""
    /\ last = Step("setup", 0, 0, 0)
    /\ acted = NoAction
    /\ calc = NoCalc

WhileConditionNoCap == p1.current_hp > 0 /\ p2.current_hp > 0

\* the while condition of line 124
WhileCondition == p1.current_hp > 0 /\ p2.current_hp > 0 /\ turn < MaxTurns

SpeedIgnoringParalysis(p) == 2 * p.pokemon.stats.speed

\* effective speed, doubled (lines 128-129): speed * 0.5 if paralysed
Speed2(p) == IF p.status = PARALYSIS THEN p.pokemon.stats.speed
             ELSE 2 * p.pokemon.stats.speed

\* lines 124-133: the loop is entered, the order of the round is fixed
StartRound ==
    /\ pc = "while"
    /\ WhileCondition
    /\ turn' = turn + 1
    /\ first' = IF Speed2(p1) >= Speed2(p2) THEN 1 ELSE 2
    /\ slot' = 1
    /\ pc' = "slot"
    /\ last' = Step("round", 0, 0, 0)
    /\ UNCHANGED <<bp, winner, calc, acted>>

\* `continue`: the next iteration of the inner loop, or its end
Continue ==
    IF slot = 1 THEN slot' = 2 /\ pc' = "slot"
    ELSE slot' = 0 /\ pc' = "post"

BreakAsContinue ==
    IF slot = 1 THEN slot' = 2 /\ pc' = "slot"
    ELSE slot' = 0 /\ pc' = "post"

\* `break`
Break == slot' = 0 /\ pc' = "post"

\* lines 136-139: the two `continue`s that leave the slot unused
SkipTurn ==
    /\ pc = "slot"
    /\ \/ /\ bp[Actor].current_hp <= 0
          /\ last' = Step("fainted", Actor, 0, 0)
       \/ /\ bp[Actor].current_hp > 0
          /\ \E roll \in BOOLEAN : ~_handle_pre_turn_status(bp[Actor], roll)
          /\ last' = Step("skip", Actor, 0, 0)
    /\ Continue
    /\ UNCHANGED <<bp, turn, first, winner, calc, acted>>

\* can_move of line 138, for some outcome of the paralysis roll
CanMove(a) ==
    /\ bp[a].current_hp > 0
    /\ \E roll \in BOOLEAN : _handle_pre_turn_status(bp[a], roll)

\* the random factors the calls of _calculate_damage in _select_move may draw
SelectorDraws(a) == [1..Len(usable_moves(bp[a])) -> RandomFactors]

RestedNoCap(p) == [p EXCEPT !.current_energy = p.current_energy + RestEnergy]

\* line 143
Rested(p) == [p EXCEPT !.current_energy = Min(MaxEnergy, p.current_energy + RestEnergy)]

\* line 141: what _select_move may return for actor a, over all the draws
Selections(a) ==
    { _select_move(bp[a], bp[Other(a)], rfs) : rfs \in SelectorDraws(a) }

\* lines 141-145: no move is selected, the combatant Rests
Rest ==
    /\ pc = "slot"
    /\ CanMove(Actor)
    /\ 0 \in Selections(Actor)
    /\ bp' = [bp EXCEPT ![Actor] = Rested(bp[Actor])]
    /\ last' = Step("rest", Actor, 0, 0)
    /\ acted' = Noted(Actor, "rest")
    /\ Continue
    /\ UNCHANGED <<turn, first, winner, calc>>

\* line 155
self_ko_moves == {"self-destruct", "explosion"}

\* lines 147-157 for the attacker: energy is deducted, a self-KO move faints it
AfterAttack(attacker, move) ==
    LET paid == [attacker EXCEPT
                    !.current_energy = attacker.current_energy - _get_move_energy_cost(move)]
    IN IF Lower(move.name) \in self_ko_moves
       THEN [paid EXCEPT !.current_hp = 0]
       ELSE paid

HitNoFloor(defender, damage) ==
    [defender EXCEPT !.current_hp = defender.current_hp - damage]

\* line 151
Hit(defender, damage) ==
    [defender EXCEPT !.current_hp = Max(0, defender.current_hp - damage)]

\* lines 141-164: a move is selected and used
Attack ==
    /\ pc = "slot"
    /\ CanMove(Actor)
    /\ \E m \in Selections(Actor) \ {0}, rf \in RandomFactors, roll \in BOOLEAN :
          LET a == Actor
              d == Other(Actor)
              move == bp[a].pokemon.moves_sample[m]
          IN \E attacker \in {AfterAttack(bp[a], move)} :
             \E damage \in {_calculate_damage(attacker, bp[d], move, rf).damage} :
             \E hit \in {Hit(bp[d], damage)} :
             \E status \in {_apply_status_effect(move, hit, roll)} :
                /\ bp' = [bp EXCEPT ![a] = attacker,
                                    ![d] = [hit EXCEPT !.status = status]]
                /\ last' = Step("attack", a, m, damage)
                /\ acted' = Noted(a, "attack")
                /\ IF hit.current_hp <= 0 THEN Break ELSE Continue
    /\ UNCHANGED <<turn, first, winner, calc>>

EitherAlive == p1.current_hp > 0 \/ p2.current_hp > 0

\* line 166
BothAlive == p1.current_hp > 0 /\ p2.current_hp > 0

\* lines 166-168: after the inner loop; p1's tick when both are alive
PostTurn ==
    /\ pc = "post"
    /\ IF BothAlive
       THEN /\ bp' = [bp EXCEPT ![1].current_hp = _handle_post_turn_status(p1)]
            /\ pc' = "tick2"
            /\ last' = Step("tick", 1, 0, p1.current_hp - _handle_post_turn_status(p1))
       ELSE /\ bp' = bp
            /\ pc' = "while"
            /\ last' = Step("notick", 0, 0, 0)
    /\ UNCHANGED <<turn, first, slot, winner, calc, acted>>

\* lines 169-172: p2's tick
PostTurn2 ==
    /\ pc = "tick2"
    /\ bp' = [bp EXCEPT ![2].current_hp = _handle_post_turn_status(p2)]
    /\ pc' = "while"
    /\ last' = Step("tick", 2, 0, p2.current_hp - _handle_post_turn_status(p2))
    /\ UNCHANGED <<turn, first, slot, winner, calc, acted>>

VerdictFirstStanding ==
    IF p2.current_hp <= 0 THEN "p1"
    ELSE IF p1.current_hp <= 0 THEN "p2"
    ELSE "Draw"

VerdictSurvivor ==
    IF p1.current_hp > 0 THEN "p1"
    ELSE IF p2.current_hp > 0 THEN "p2"
    ELSE "Draw"

\* lines 175-177: "p1" stands for p1.pokemon.name, "p2" for p2.pokemon.name
Verdict ==
    IF p1.current_hp > 0 /\ p2.current_hp <= 0 THEN "p1"
    ELSE IF p2.current_hp > 0 /\ p1.current_hp <= 0 THEN "p2"
    ELSE "Draw"

\* lines 174-179: the loop is left and the verdict is given
BattleOver ==
    /\ pc = "while"
    /\ ~WhileCondition
    /\ winner' = Verdict
    /\ pc' = "over"
    /\ last' = Step("over", 0, 0, 0)
    /\ UNCHANGED <<bp, turn, first, slot, calc, acted>>

\* lines 181-187: the hp bars divide by the base hp; the log is returned
FinalState ==
    /\ pc = "over"
    /\ pc' = IF p1.pokemon.stats.hp = 0 \/ p2.pokemon.stats.hp = 0
             THEN "ZeroDivisionError" ELSE "returned"
    /\ last' = Step("final", 0, 0, 0)
    /\ UNCHANGED <<bp, turn, first, slot, winner, calc, acted>>

Next ==
    \/ StartRound
    \/ SkipTurn
    \/ Rest
    \/ Attack
    \/ PostTurn
    \/ PostTurn2
    \/ BattleOver
    \/ FinalState

Spec == Init /\ [][Next]_vars

\* run_simulation has no suspension point: a step that can be taken is taken
FairSpec == Spec /\ WF_vars(Next)

----------------------------------------------------------------------------
(* _calculate_damage on its own: one call with inputs drawn from bounded   *)
(* sets, and the use of its result at line 151                             *)

\* the stats of the damage specification are the multiples of StatStep
StatStep == 40
StatValues == { StatStep * k : k \in 0..MaxStat }

DamageTypes ==
    { <<>>, <<"Normal">>, <<"Ground">>, <<"Ghost">>, <<"Water", "Flying">>,
      <<"Rock", "Ground">> }

DamagePowers == { None, Some(0), Some(-40), Some(1), Some(40), Some(100) }

DamageMoves ==
    { Move("m", type, category, power) :
        type \in {"electric", "normal"}, category \in {"physical", "special"},
        power \in DamagePowers }

DamageAttackers ==
    { [BattlePokemon(Pokemon("a", <<"Normal">>, PokemonStats(1, at, 0, sa, 0, 0), <<>>),
                     1, StartEnergy) EXCEPT !.status = st] :
        at \in StatValues, sa \in StatValues, st \in {NONE, BURN} }

DamageDefenders ==
    { BattlePokemon(Pokemon("d", types, PokemonStats(hp, 0, df, 0, sd, 0), <<>>),
                    hp, StartEnergy) :
        types \in DamageTypes, df \in StatValues, sd \in StatValues, hp \in {1, MaxHp} }

InitDamage ==
    /\ \E attacker \in DamageAttackers, defender \in DamageDefenders,
          move \in DamageMoves, rf \in RandomFactors :
          calc = [phase |-> "call", attacker |-> attacker, defender |-> defender,
                  move |-> move, rf |-> rf, result |-> [damage |-> 0, text |-> ""],
                  hit |-> defender]
    /\ bp = <<>>
    /\ turn = 0
    /\ pc = "damage"
    /\ first = 0
    /\ slot = 0
    /\ winner = ""
    /\ last = Step("setup", 0, 0, 0)
    /\ acted = NoAction

\* line 150
CalculateDamage ==
    /\ calc.phase = "call"
    /\ calc' = [calc EXCEPT
                  !.phase = "returned",
                  !.result = _calculate_damage(calc.attacker, calc.defender,
                                               calc.move, calc.rf)]
    /\ UNCHANGED <<bp, turn, pc, first, slot, winner, last, acted>>

\* line 151
ApplyDamage ==
    /\ calc.phase = "returned"
    /\ calc' = [calc EXCEPT !.phase = "applied",
                            !.hit = Hit(calc.defender, calc.result.damage)]
    /\ UNCHANGED <<bp, turn, pc, first, slot, winner, last, acted>>

NextDamage == CalculateDamage \/ ApplyDamage

SpecDamage == InitDamage /\ [][NextDamage]_vars

----------------------------------------------------------------------------
(* Properties of run_simulation *)

Combatants == {1, 2}

Finished == pc \in {"over", "returned", "ZeroDivisionError"}

\* the position of a state in the run: rounds first, then the position in the
\* round (the loop test, the two slots, the two ticks), then the two final steps
Rank ==
    6 * turn +
    (CASE pc = "slot" -> slot
       [] pc = "post" -> 3
       [] pc = "tick2" -> 4
       [] pc = "while" -> 5
       [] pc = "over" -> 6
       [] OTHER -> 7)

\* C1: every run of run_simulation reaches BattleOver after at most 50 rounds:
\* the round counter never exceeds 50, a step is possible in every state before
\* the end, and every step moves the run forward (Rank grows and is bounded by
\* the round cap), so no run goes on for ever; and when both combatants still
\* have hp > 0 at BattleOver, 50 rounds were played and the verdict is Draw.
C1_TerminatesWithinCap ==
    /\ [](turn <= MaxTurns)
    /\ [](Finished \/ ENABLED Next)
    /\ [][Rank' > Rank]_vars
    /\ [](Finished /\ BothAlive => turn = MaxTurns /\ winner = "Draw")

C1_Witness ==
    pc = "over" /\ BothAlive /\ turn = MaxTurns /\ winner = "Draw"

\* C2: at BattleOver the verdict is p1 exactly when p1.hp > 0 and p2.hp <= 0,
\* p2 exactly when p2.hp > 0 and p1.hp <= 0, Draw in every other case, and a
\* combatant with 0 hp is never the winner.
C2_Verdict ==
    Finished =>
        /\ winner \in {"p1", "p2", "Draw"}
        /\ (winner = "p1") <=> (p1.current_hp > 0 /\ p2.current_hp <= 0)
        /\ (winner = "p2") <=> (p2.current_hp > 0 /\ p1.current_hp <= 0)
        /\ (winner = "Draw") <=>
              \/ (p1.current_hp <= 0 /\ p2.current_hp <= 0)
              \/ (p1.current_hp > 0 /\ p2.current_hp > 0)
        /\ winner = "p1" => p1.current_hp # 0
        /\ winner = "p2" => p2.current_hp # 0

\* both fainted in the same round of a battle that was fought
C2_Witness ==
    /\ pc = "over" /\ turn > 0 /\ winner = "Draw"
    /\ p1.current_hp = 0 /\ p2.current_hp = 0

\* C3: each combatant's current_hp starts at its base hp, is within 0..base hp
\* in every state and never increases from one state to the next.
C3_HpBoundedMonotone ==
    /\ \A c \in Combatants : bp[c].current_hp = bp[c].pokemon.stats.hp
    /\ [](\A c \in Combatants : bp[c].current_hp \in 0..bp[c].pokemon.stats.hp)
    /\ [][\A c \in Combatants : bp'[c].current_hp <= bp[c].current_hp]_vars

\* an attack whose damage exceeded what the defender had: the floor acted
C3_Witness ==
    /\ last.kind = "attack"
    /\ bp[Other(last.actor)].current_hp = 0
    /\ last.damage > bp[Other(last.actor)].pokemon.stats.hp

\* the move a step of kind "attack" used
MoveOf(c, step) == bp[c].pokemon.moves_sample[step.move]

\* C4: each combatant's current_energy starts at 100 and is within 0..100 in
\* every state; a step
\* lowers it only as the attack of that combatant, by the cost of the move
\* selected, which is at most the energy held before; a step raises it only as
\* the Rest of that combatant, to min(100, energy + 50).
C4_EnergyBounded ==
    /\ \A c \in Combatants : bp[c].current_energy = 100
    /\ [](\A c \in Combatants : bp[c].current_energy \in 0..100)
    /\ [][\A c \in Combatants :
            /\ bp'[c].current_energy < bp[c].current_energy =>
                  /\ last'.kind = "attack" /\ last'.actor = c
                  /\ _get_move_energy_cost(MoveOf(c, last')) <= bp[c].current_energy
                  /\ bp'[c].current_energy =
                        bp[c].current_energy - _get_move_energy_cost(MoveOf(c, last'))
            /\ bp'[c].current_energy > bp[c].current_energy =>
                  /\ last'.kind = "rest" /\ last'.actor = c
                  /\ bp'[c].current_energy = Min(100, bp[c].current_energy + 50)
       ]_vars

\* an attack that spent all the energy its combatant held
C4_Witness ==
    /\ last.kind = "attack"
    /\ bp[last.actor].current_energy = 0

\* C5: a Rest sets the resting combatant's energy to min(100, energy + 50) and
\* changes nothing else: hp and status of both combatants and the opponent's
\* energy are as before.
C5_RestFrame ==
    [][last'.kind = "rest" =>
          LET a == last'.actor
          IN /\ bp'[a].current_energy = Min(100, bp[a].current_energy + 50)
             /\ bp'[a].current_hp = bp[a].current_hp
             /\ bp'[a].status = bp[a].status
             /\ bp'[a].pokemon = bp[a].pokemon
             /\ bp'[Other(a)] = bp[Other(a)]
             /\ turn' = turn /\ winner' = winner
    ]_vars

\* a Rest that the cap of 100 cut short, by a combatant that carries a status
\* condition (which the Rest leaves in place)
C5_Witness ==
    /\ last.kind = "rest"
    /\ bp[last.actor].current_energy = 100
    /\ bp[last.actor].status # NONE

\* a move of combatant c that is affordable at energy e and not sacrificial
HasUsableMove(c, e) ==
    \E i \in 1..Len(bp[c].pokemon.moves_sample) :
        LET m == bp[c].pokemon.moves_sample[i]
            cost == IF m.power = None \/ m.power[1] < 40 THEN 10
                    ELSE IF m.power[1] < 70 THEN 20
                    ELSE IF m.power[1] < 100 THEN 30 ELSE 40
        IN /\ cost <= e
           /\ Lower(m.name) \notin {"self-destruct", "explosion", "final-gambit"}

\* C6: in every action slot a living combatant that is not skipped by paralysis
\* Rests if and only if none of its moves is both affordable and non-sacrificial,
\* and attacks otherwise (with such a move).
C6_RestIffNoUsableMove ==
    [][pc = "slot" =>
          /\ last'.kind \in {"fainted", "skip", "rest", "attack"}
          /\ last'.actor = Actor
          /\ last'.kind = "rest" => ~HasUsableMove(Actor, bp[Actor].current_energy)
          /\ last'.kind = "attack" =>
                /\ HasUsableMove(Actor, bp[Actor].current_energy)
                /\ _get_move_energy_cost(MoveOf(Actor, last')) <= bp[Actor].current_energy
                /\ Lower(MoveOf(Actor, last').name) \notin sacrificial_moves
          /\ last'.kind \in {"fainted", "skip"} =>
                bp[Actor].current_hp <= 0 \/ bp[Actor].status = PARALYSIS
    ]_vars

\* a Rest of a combatant that knows a non-sacrificial move: it could not pay
C6_Witness ==
    /\ last.kind = "rest"
    /\ \E i \in 1..Len(bp[last.actor].pokemon.moves_sample) :
          Lower(bp[last.actor].pokemon.moves_sample[i].name) \notin sacrificial_moves

\* C7: once a combatant's hp is 0, no later step is an action of that combatant
\* (an attack, a Rest, a paralysis skip) or a post-turn tick on it, and no later
\* step changes its energy or its hp; its opponent's hp changes only by the
\* opponent's own tick (the fainted combatant deals no damage).
C7_FaintedIsInert ==
    [][\A c \in Combatants :
          bp[c].current_hp <= 0 =>
             /\ ~(last'.actor = c /\ last'.kind \in {"attack", "rest", "skip", "tick"})
             /\ bp'[c].current_energy = bp[c].current_energy
             /\ bp'[c].current_hp = bp[c].current_hp
             /\ bp'[Other(c)].current_hp # bp[Other(c)].current_hp =>
                   last'.kind = "tick" /\ last'.actor = Other(c)
    ]_vars

\* the end of a round in which a poisoned or burned combatant fainted: the
\* ticks were not run
C7_Witness ==
    /\ last.kind = "notick"
    /\ \E c \in Combatants :
          bp[c].current_hp = 0 /\ bp[c].status \in {POISON, BURN}

\* C10: both combatants start Healthy, a status is always one of the four
\* values, and a combatant that is Poisoned, Burned or Paralyzed has the same
\* status after every step.
C10_StatusIsPermanent ==
    /\ \A c \in Combatants : bp[c].status = NONE
    /\ [](\A c \in Combatants : bp[c].status \in StatusEffect)
    /\ [][\A c \in Combatants :
            bp[c].status # NONE => bp'[c].status = bp[c].status]_vars

\* a Poisoned combatant has just been hit by a fire move (which burns a
\* Healthy target)
C10_Witness ==
    /\ last.kind = "attack"
    /\ Lower(MoveOf(last.actor, last).type) = "fire"
    /\ bp[Other(last.actor)].status = POISON

----------------------------------------------------------------------------
(* Properties of _calculate_damage *)

Returned == calc.phase \in {"returned", "applied"}

\* C8 as stated: for every move whose power is absent, zero or negative,
\* _calculate_damage returns damage 0 and an empty effectiveness note.
C8_NoPowerNoDamage_Original ==
    (Returned /\ (calc.move.power = None \/ calc.move.power[1] <= 0)) =>
        calc.result = [damage |-> 0, text |-> ""]

\* C8, amended: for every move whose power is absent or zero, and for every
\* attacker and defender, _calculate_damage returns damage 0 and an empty
\* effectiveness note.
C8_NoPowerNoDamage ==
    (Returned /\ (calc.move.power = None \/ calc.move.power[1] = 0)) =>
        calc.result = [damage |-> 0, text |-> ""]

\* a move of power 0 against a target its type would be super effective on
C8_Witness ==
    /\ Returned
    /\ calc.move.power = Some(0)
    /\ calc.move.type = "electric"
    /\ calc.defender.pokemon.types = <<"Water", "Flying">>
    /\ calc.result = [damage |-> 0, text |-> ""]

\* C9: for every move with power > 0, whatever the (non-negative) stats, the
\* type effectiveness and the random factor, _calculate_damage returns a
\* damage of at least 1, and applying it lowers a living defender's hp by at
\* least 1.
C9_DamagingMoveHurts ==
    (Returned /\ calc.move.power # None /\ calc.move.power[1] > 0) =>
        /\ calc.result.damage >= 1
        /\ calc.phase = "applied" =>
              /\ calc.defender.current_hp >= 1
              /\ calc.hit.current_hp <= calc.defender.current_hp - 1
              /\ calc.hit.current_hp >= 0

\* a damaging move against an immune target (effectiveness 0) of an attacker
\* with positive stats: the product is 0, the damage dealt is 1
C9_Witness ==
    /\ calc.phase = "applied"
    /\ calc.move = Move("m", "electric", "special", Some(100))
    /\ calc.attacker.pokemon.stats.special_attack > 0
    /\ calc.defender.pokemon.types = <<"Ground">>
    /\ calc.result.damage = 1
    /\ calc.hit.current_hp = calc.defender.current_hp - 1

----------------------------------------------------------------------------
(* Further properties of run_simulation *)

\* C11: run_simulation never raises: no run ends in an exception (here the
\* ZeroDivisionError of the hp bars of line 181).
C11_NeverRaises == pc # "ZeroDivisionError"

\* twice the effective speed of combatant c, from its status and base speed
EffectiveSpeed2(c) ==
    IF bp[c].status = "Paralyzed" THEN bp[c].pokemon.stats.speed
    ELSE 2 * bp[c].pokemon.stats.speed

\* C12: when a round starts, p1 is the first actor if and only if its effective
\* speed (half the base speed when Paralyzed, the base speed otherwise, by the
\* statuses held at that moment) is >= p2's, else p2 is; the order holds for the
\* two slots of the round, and the creature records (the base speed) never
\* change.
C12_TurnOrder ==
    [][/\ (pc = "while" /\ pc' = "slot") =>
             /\ first' \in Combatants
             /\ (first' = 1) <=> (EffectiveSpeed2(1) >= EffectiveSpeed2(2))
       /\ pc = "slot" =>
             /\ first' = first
             /\ last'.actor = IF slot = 1 THEN first ELSE 3 - first
       /\ \A c \in Combatants : bp'[c].pokemon = bp[c].pokemon
    ]_vars

\* a round in which p1, the faster by base speed, acts second: it is Paralyzed
C12_Witness ==
    /\ pc = "slot" /\ first = 2
    /\ p1.pokemon.stats.speed > p2.pokemon.stats.speed
    /\ p1.status = PARALYSIS

\* C13: no attack uses a move whose lower-cased name is self-destruct,
\* explosion or final-gambit, no attack changes the attacker's own hp, and a
\* combatant's hp is lowered only by its opponent's attack or its own tick.
C13_NoSacrificialMove ==
    [][/\ last'.kind = "attack" =>
             /\ Lower(MoveOf(last'.actor, last').name)
                   \notin {"self-destruct", "explosion", "final-gambit"}
             /\ bp'[last'.actor].current_hp = bp[last'.actor].current_hp
       /\ \A c \in Combatants :
             bp'[c].current_hp < bp[c].current_hp =>
                \/ last'.kind = "attack" /\ last'.actor = Other(c)
                \/ last'.kind = "tick" /\ last'.actor = c
    ]_vars

\* an attack of a combatant that knows a sacrificial move and could have paid
\* for it
C13_Witness ==
    /\ last.kind = "attack"
    /\ \E i \in 1..Len(bp[last.actor].pokemon.moves_sample) :
          LET m == bp[last.actor].pokemon.moves_sample[i]
          IN /\ Lower(m.name) \in {"self-destruct", "explosion", "final-gambit"}
             /\ _get_move_energy_cost(m) <=
                   bp[last.actor].current_energy
                      + _get_move_energy_cost(MoveOf(last.actor, last))

\* the condition a move of type `type` inflicts, "" when it inflicts none
ConditionOfType(type) ==
    CASE Lower(type) = "poison" -> "Poisoned"
      [] Lower(type) = "fire" -> "Burned"
      [] Lower(type) = "electric" -> "Paralyzed"
      [] OTHER -> ""

\* C19: a step changes a combatant's status only as an attack of its opponent,
\* only from Healthy, and only to the condition of the type of the move used
\* (poison, fire, electric, compared case-insensitively); Rests, skips, ticks
\* and the attacker's own attack leave it as it is.
C19_StatusOnlyOnHit ==
    [][\A c \in Combatants :
          bp'[c].status # bp[c].status =>
             /\ last'.kind = "attack"
             /\ last'.actor = Other(c)
             /\ bp[c].status = "Healthy"
             /\ bp'[c].status = ConditionOfType(MoveOf(Other(c), last').type)
    ]_vars

\* a combatant burned by a move whose type is spelled "FIRE"
C19_Witness ==
    /\ last.kind = "attack"
    /\ MoveOf(last.actor, last).type = "FIRE"
    /\ bp[last.actor].pokemon.name = "Blaze"
    /\ bp[Other(last.actor)].status = BURN

\* C20: a slot is skipped by the pre-turn check only for a Paralyzed combatant,
\* and then the step changes nothing: energy, hp and status of both combatants
\* are as before and no move is used.
C20_ParalysisSkipFrame ==
    [][last'.kind = "skip" =>
          /\ bp[last'.actor].status = "Paralyzed"
          /\ bp[last'.actor].current_hp > 0
          /\ bp' = bp
          /\ last'.move = 0 /\ last'.damage = 0
          /\ turn' = turn /\ winner' = winner
    ]_vars

\* a skipped slot of a combatant that could have paid for a move
C20_Witness ==
    /\ last.kind = "skip"
    /\ HasUsableMove(last.actor, bp[last.actor].current_energy)

----------------------------------------------------------------------------
(* The pure functions on their own: each specification draws the inputs of  *)
(* one call from bounded sets and makes the call.  The variables of          *)
(* run_simulation are idle in them.                                          *)

BattleIdle ==
    /\ bp = <<>>
    /\ turn = 0
    /\ pc = "idle"
    /\ first = 0
    /\ slot = 0
    /\ winner = ""
    /\ last = Step("setup", 0, 0, 0)
    /\ acted = NoAction

\* _handle_post_turn_status: base hp ranges over 0..MaxTickHp
MaxTickHp == 40

TickPokemons ==
    UNION { { [BattlePokemon(Pokemon("t", <<"Normal">>,
                                     PokemonStats(hp, 0, 0, 0, 0, 0), <<>>),
                             cur, energy) EXCEPT !.status = st] :
                cur \in 0..hp, energy \in {0, StartEnergy}, st \in StatusEffect } :
            hp \in 0..MaxTickHp }

InitTick ==
    /\ \E pokemon \in TickPokemons :
          calc = [phase |-> "call", before |-> pokemon, pokemon |-> pokemon]
    /\ BattleIdle

\* lines 167 and 169: one call of _handle_post_turn_status
PostTurnTick ==
    /\ calc.phase = "call"
    /\ calc' = [calc EXCEPT
                  !.phase = "returned",
                  !.pokemon.current_hp = _handle_post_turn_status(calc.pokemon)]
    /\ UNCHANGED <<bp, turn, pc, first, slot, winner, last, acted>>

SpecTick == InitTick /\ [][PostTurnTick]_vars

\* _get_move_energy_cost: power is absent or ranges over -2..MaxPower
MaxPower == 120

CostPowers == {None} \cup { Some(n) : n \in -2..MaxPower }

InitCost ==
    /\ \E pa \in CostPowers, pb \in CostPowers :
          calc = [phase |-> "call",
                  a |-> Move("Ember", "fire", "special", pa),
                  b |-> Move("Tackle", "normal", "physical", pb),
                  cost_a |-> 0, cost_b |-> 0]
    /\ BattleIdle

\* line 147: _get_move_energy_cost, called for each of the two moves
EnergyCost ==
    /\ calc.phase = "call"
    /\ calc' = [calc EXCEPT !.phase = "returned",
                            !.cost_a = _get_move_energy_cost(calc.a),
                            !.cost_b = _get_move_energy_cost(calc.b)]
    /\ UNCHANGED <<bp, turn, pc, first, slot, winner, last, acted>>

SpecCost == InitCost /\ [][EnergyCost]_vars

\* get_type_effectiveness: up to MaxTypes target types, in mixed case, one of
\* them ("shadow") unknown to the chart
MaxTypes == 3

EffTypes == {"Fire", "FIRE", "fire", "Normal", "Ghost", "ghost", "Ground",
             "GROUND", "Electric", "Flying", "Water", "Rock", "shadow"}

EffTargets == UNION { [1..n -> EffTypes] : n \in 0..MaxTypes }

InitEff ==
    /\ \E move_type \in EffTypes, target_types \in EffTargets :
          calc = [phase |-> "call", move_type |-> move_type,
                  target_types |-> target_types,
                  result |-> One, lowered |-> One]
    /\ BattleIdle

\* line 37: get_type_effectiveness, called for the inputs as drawn and for
\* the same inputs in lower case
TypeEffectiveness ==
    /\ calc.phase = "call"
    /\ calc' = [calc EXCEPT
                  !.phase = "returned",
                  !.result = get_type_effectiveness(calc.move_type, calc.target_types),
                  !.lowered = get_type_effectiveness(
                                  Lower(calc.move_type),
                                  [i \in DOMAIN calc.target_types |->
                                      Lower(calc.target_types[i])])]
    /\ UNCHANGED <<bp, turn, pc, first, slot, winner, last, acted>>

SpecEff == InitEff /\ [][TypeEffectiveness]_vars

\* _select_move: move lists of up to MaxMoves moves
MaxMoves == 3

SelectPool == {Growl, Tackle, Ember, Thunder, Explosion}

SelectMoveLists == UNION { [1..n -> SelectPool] : n \in 0..MaxMoves }

\* energies that afford the first band only, the first two bands, every band
SelectEnergies == {10, 20, MaxEnergy}

SelectAttackers ==
    { BattlePokemon(Pokemon("Sparky", <<"Electric">>,
                            PokemonStats(100, 100, 50, 100, 50, 50), moves),
                    100, energy) :
        moves \in SelectMoveLists, energy \in SelectEnergies }

\* a target every pool move hits normally, and one immune to normal moves
SelectOpponents ==
    { BattlePokemon(Pokemon("Toxo", types,
                            PokemonStats(100, 100, 50, 100, 50, 50), <<Tackle>>),
                    100, StartEnergy) :
        types \in {<<"Poison">>, <<"Ghost">>} }

InitSelect ==
    /\ \E attacker \in SelectAttackers, opponent \in SelectOpponents :
         \E rfs \in [1..Len(attacker.pokemon.moves_sample) -> RandomFactors] :
            calc = [phase |-> "call", attacker |-> attacker,
                    opponent |-> opponent, rfs |-> rfs, result |-> 0]
    /\ BattleIdle

\* line 141: one call of _select_move
SelectMove ==
    /\ calc.phase = "call"
    /\ calc' = [calc EXCEPT
                  !.phase = "returned",
                  !.result = _select_move(calc.attacker, calc.opponent, calc.rfs)]
    /\ UNCHANGED <<bp, turn, pc, first, slot, winner, last, acted>>

SpecSelect == InitSelect /\ [][SelectMove]_vars

----------------------------------------------------------------------------
(* pokemon_mcp_server.py: the simulate_battle tool.  One request is followed *)
(* through its two awaited lookups and the call of run_simulation.           *)

\* the creatures the remote API knows, by lower-case name
KnownNames == {"sparky", "toxo"}

\* the names a request may carry; "Missingno" is unknown to the API
RequestNames == {"Sparky", "SPARKY", "Toxo", "Missingno"}

\* the record get_pokemon_details assembles for a known name
RecordOf(name) ==
    CHOOSE p \in Templates(MaxHp) : Lower(p.name) = Lower(name)

\* get_pokemon_details(name) with the given cache: the set of values the
\* call may return.  A cached name is returned from the cache; otherwise the
\* fetch fails (None) or, for a known name, may succeed.
LookupOutcomes(cache, name) ==
    IF Lower(name) \in cache THEN {Some(RecordOf(name))}
    ELSE {None} \cup (IF Lower(name) \in KnownNames
                      THEN {Some(RecordOf(name))} ELSE {})

\* line 190: a successful lookup leaves the record in the cache
CacheAfter(cache, name, data) ==
    IF data = None THEN cache ELSE cache \cup {Lower(name)}

NotFoundNever(data) == FALSE

\* "not p1_data", "not p2_data" of lines 85 and 89
NotFound(data) == data = None

\* the message of lines 86 and 90
ErrorMessage(name) ==
    <<"Error: Could not find data for Pokémon '", name, "' to start the battle.">>

InitServer ==
    /\ \E pokemon1 \in RequestNames, pokemon2 \in RequestNames,
          cache \in SUBSET KnownNames :
          calc = [phase |-> "lookup1", pokemon1 |-> pokemon1, pokemon2 |-> pokemon2,
                  cache |-> cache, p1_data |-> None, p2_data |-> None,
                  lookups |-> <<>>, started |-> FALSE, result |-> <<>>]
    /\ BattleIdle

\* lines 84-86
Lookup1 ==
    /\ calc.phase = "lookup1"
    /\ \E data \in LookupOutcomes(calc.cache, calc.pokemon1) :
          calc' = [calc EXCEPT
                     !.p1_data = data,
                     !.cache = CacheAfter(calc.cache, calc.pokemon1, data),
                     !.lookups = Append(@, [name |-> calc.pokemon1,
                                            found |-> data # None]),
                     !.phase = IF NotFound(data) THEN "returned" ELSE "lookup2",
                     !.result = IF NotFound(data)
                                THEN ErrorMessage(calc.pokemon1) ELSE @]
    /\ UNCHANGED <<bp, turn, pc, first, slot, winner, last, acted>>

\* lines 88-90
Lookup2 ==
    /\ calc.phase = "lookup2"
    /\ \E data \in LookupOutcomes(calc.cache, calc.pokemon2) :
          calc' = [calc EXCEPT
                     !.p2_data = data,
                     !.cache = CacheAfter(calc.cache, calc.pokemon2, data),
                     !.lookups = Append(@, [name |-> calc.pokemon2,
                                            found |-> data # None]),
                     !.phase = IF NotFound(data) THEN "returned" ELSE "simulate",
                     !.result = IF NotFound(data)
                                THEN ErrorMessage(calc.pokemon2) ELSE @]
    /\ UNCHANGED <<bp, turn, pc, first, slot, winner, last, acted>>

\* lines 93-95: run_simulation is called with the two records and its log
\* is returned
RunSimulation ==
    /\ calc.phase = "simulate"
    /\ calc' = [calc EXCEPT
                  !.started = TRUE,
                  !.phase = "returned",
                  !.result = <<"battle_log", calc.p1_data, calc.p2_data>>]
    /\ UNCHANGED <<bp, turn, pc, first, slot, winner, last, acted>>

NextServer == Lookup1 \/ Lookup2 \/ RunSimulation

SpecServer == InitServer /\ [][NextServer]_vars

----------------------------------------------------------------------------
(* pokemon_data_manager.py: get_pokemon_details with its cache.  MaxCalls   *)
(* calls run on one event loop and interleave at their await points.         *)

MaxCalls == 2

\* what the remote API answers for /pokemon/{name} and for each move URL
ApiMoves ==
    <<[name |-> "thunder", type |-> "electric", power |-> Some(110), category |-> "special"],
      [name |-> "tackle", type |-> "normal", power |-> Some(40), category |-> "physical"],
      [name |-> "double-edge", type |-> "normal", power |-> Some(120), category |-> "physical"],
      [name |-> "growl", type |-> "normal", power |-> None, category |-> "status"]>>

Api ==
    [sparky |-> [name |-> "sparky", types |-> <<"electric">>,
                 stats |-> PokemonStats(MaxHp, 1, 0, 1, 0, 2), moves |-> ApiMoves]]

\* str.capitalize() and str.replace('-', ' ') on the API's names
Capitalize ==
    [sparky |-> "Sparky", electric |-> "Electric", thunder |-> "Thunder",
     tackle |-> "Tackle", growl |-> "Growl"]
     @@ ("double-edge" :> "Double-edge")

Unhyphen(s) == IF s = "Double-edge" THEN "Double edge" ELSE s

\* the orders random.shuffle may leave a list of n elements in
Shuffles(n) == { f \in [1..n -> 1..n] : \A i, j \in 1..n : f[i] = f[j] => i = j }

\* lines 58-91: the moves kept from the shuffled list refs, fetched[i] telling
\* whether the request for refs[i] succeeded: those with a power, as Move
RECURSIVE ParsedMoves(_, _, _)
ParsedMoves(refs, fetched, i) ==
    IF i > Len(refs) THEN <<>>
    ELSE LET move_data == refs[i]
             keep == /\ fetched[i]
                     /\ move_data.power # None
                     /\ move_data.power # Some(0)
         IN (IF keep
             THEN <<Move(Unhyphen(Capitalize[move_data.name]), move_data.type,
                         move_data.category, move_data.power)>>
             ELSE <<>>) \o ParsedMoves(refs, fetched, i + 1)

RECURSIVE Filtered(_, _, _)
Filtered(moves, pokemon_types, stab) ==
    IF moves = <<>> THEN <<>>
    ELSE (IF (\E k \in DOMAIN pokemon_types : pokemon_types[k] = Head(moves).type) = stab
          THEN <<Head(moves)>> ELSE <<>>)
         \o Filtered(Tail(moves), pokemon_types, stab)

Prefix(s, n) == SubSeq(s, 1, Min(n, Len(s)))

\* lines 94-97: two STAB moves first, then the others, four at most
FinalMoveset(moves, pokemon_types) ==
    Prefix(Prefix(Filtered(moves, pokemon_types, TRUE), 2)
              \o Filtered(moves, pokemon_types, FALSE), 4)

\* _fetch_and_parse_moves: every moveset it may return for primary_data
MovesetsOf(primary_data) ==
    LET n == Len(primary_data.moves)
    IN { FinalMoveset(ParsedMoves([i \in 1..n |-> primary_data.moves[f[i]]], fetched, 1),
                      primary_data.types) :
            f \in Shuffles(n), fetched \in [1..n -> BOOLEAN] }

\* lines 177-188: the records a successful call may assemble
RecordsOf(primary_data) ==
    { Pokemon(Capitalize[primary_data.name],
              [i \in DOMAIN primary_data.types |-> Capitalize[primary_data.types[i]]],
              primary_data.stats, moves) :
        moves \in MovesetsOf(primary_data) }

\* the cache before the calls: empty, or holding a record for sparky
InitialCaches ==
    {<<>>} \cup { [k \in {"sparky"} |-> r] : r \in RecordsOf(Api["sparky"]) }

NewCall(name) ==
    [name |-> name, at |-> "start", hit |-> FALSE, fetches |-> 0, result |-> None]

InitCache ==
    /\ \E names \in [1..MaxCalls -> RequestNames], cache \in InitialCaches :
          calc = [phase |-> "cache", cache |-> cache, cache0 |-> cache,
                  calls |-> [i \in 1..MaxCalls |-> NewCall(names[i])]]
    /\ BattleIdle

\* lines 157-161: the cache is consulted; on a miss the request for the
\* primary data is sent and the call waits for it
CacheCheck(i) ==
    LET call == calc.calls[i]
        key == Lower(call.name)
    IN /\ call.at = "start"
       /\ calc' = [calc EXCEPT !.calls[i] =
                     IF key \in DOMAIN calc.cache
                     THEN [call EXCEPT !.at = "done", !.hit = TRUE,
                                       !.result = Some(calc.cache[key])]
                     ELSE [call EXCEPT !.at = "primary", !.fetches = 1]]
       /\ UNCHANGED <<bp, turn, pc, first, slot, winner, last, acted>>

\* lines 161-162 and 191-193: the answer arrives; the name is unknown (status
\* 404) or the request fails, and None is returned; or the data is there and
\* the requests for species and moves follow
PrimaryData(i) ==
    LET call == calc.calls[i]
        key == Lower(call.name)
    IN /\ call.at = "primary"
       /\ \/ calc' = [calc EXCEPT !.calls[i] = [call EXCEPT !.at = "done"]]
          \/ /\ key \in DOMAIN Api
             /\ calc' = [calc EXCEPT !.calls[i] =
                           [call EXCEPT !.at = "details", !.fetches = @ + 1]]
       /\ UNCHANGED <<bp, turn, pc, first, slot, winner, last, acted>>

\* lines 173-193: the species request fails and None is returned; or the
\* record is assembled, stored in the cache and returned
Details(i) ==
    LET call == calc.calls[i]
        key == Lower(call.name)
    IN /\ call.at = "details"
       /\ \/ calc' = [calc EXCEPT !.calls[i] = [call EXCEPT !.at = "done"]]
          \/ \E pokemon \in RecordsOf(Api[key]) :
                calc' = [calc EXCEPT
                           !.calls[i] = [call EXCEPT !.at = "done",
                                                     !.result = Some(pokemon)],
                           !.cache = [k \in DOMAIN calc.cache \cup {key} |->
                                         IF k = key THEN pokemon ELSE calc.cache[k]]]
       /\ UNCHANGED <<bp, turn, pc, first, slot, winner, last, acted>>

NextCache ==
    \E i \in 1..MaxCalls : CacheCheck(i) \/ PrimaryData(i) \/ Details(i)

SpecCache == InitCache /\ [][NextCache]_vars

----------------------------------------------------------------------------
(* Properties of the pure functions *)

\* C14: _handle_post_turn_status lowers a Poisoned combatant's hp by
\* max(1, base hp div 8) and a Burned one's by max(1, base hp div 16), floored
\* at 0, leaves the hp of a Healthy or Paralyzed one as it is, and changes
\* neither status nor energy nor the creature record.
C14_TickDamage ==
    calc.phase = "returned" =>
        LET base == calc.before.pokemon.stats.hp
            hp == calc.before.current_hp
            loss == CASE calc.before.status = "Poisoned" ->
                            IF base \div 8 >= 1 THEN base \div 8 ELSE 1
                      [] calc.before.status = "Burned" ->
                            IF base \div 16 >= 1 THEN base \div 16 ELSE 1
                      [] OTHER -> 0
        IN /\ calc.pokemon.current_hp = IF hp - loss >= 0 THEN hp - loss ELSE 0
           /\ calc.pokemon.status = calc.before.status
           /\ calc.pokemon.current_energy = calc.before.current_energy
           /\ calc.pokemon.pokemon = calc.before.pokemon

\* a Poisoned combatant of base hp 32 at 10 hp loses 32 div 8 = 4, not
\* 10 div 8 = 1
C14_Witness ==
    /\ calc.phase = "returned"
    /\ calc.before.status = POISON
    /\ calc.before.pokemon.stats.hp = 32
    /\ calc.before.current_hp = 10
    /\ calc.pokemon.current_hp = 6

\* the cost the four power bands give
BandCost(power) ==
    IF power = None THEN 10
    ELSE IF power[1] < 40 THEN 10
    ELSE IF power[1] < 70 THEN 20
    ELSE IF power[1] < 100 THEN 30
    ELSE 40

\* C16: the energy cost is 10 for a power that is absent or < 40, 20 for
\* 40 <= power < 70, 30 for 70 <= power < 100 and 40 for power >= 100; it
\* depends on nothing but the power, is one of 10, 20, 30, 40 and does not
\* decrease when the power grows.
C16_EnergyCostBands ==
    calc.phase = "returned" =>
        /\ calc.cost_a = BandCost(calc.a.power)
        /\ calc.cost_b = BandCost(calc.b.power)
        /\ calc.cost_a \in {10, 20, 30, 40}
        /\ calc.a.power = calc.b.power => calc.cost_a = calc.cost_b
        /\ (calc.a.power # None /\ calc.b.power # None
              /\ calc.a.power[1] <= calc.b.power[1]) => calc.cost_a <= calc.cost_b

\* the two sides of the band limit at 70
C16_Witness ==
    /\ calc.phase = "returned"
    /\ calc.a.power = Some(69) /\ calc.cost_a = 20
    /\ calc.b.power = Some(70) /\ calc.cost_b = 30

\* twice the chart multiplier of one (attacking type, defending type) pair,
\* 2 (that is 1.0) for a pair the chart lacks
PairTwice(attacking, defending) ==
    LET a == Lower(attacking)
        d == Lower(defending)
    IN IF d \in DOMAIN type_chart
       THEN IF a \in DOMAIN type_chart[d] THEN type_chart[d][a] ELSE 2
       ELSE 2

RECURSIVE ProductTwice(_, _)
ProductTwice(attacking, defending_types) ==
    IF defending_types = <<>> THEN 1
    ELSE PairTwice(attacking, Head(defending_types))
             * ProductTwice(attacking, Tail(defending_types))

RECURSIVE Pow2(_)
Pow2(n) == IF n = 0 THEN 1 ELSE 2 * Pow2(n - 1)

\* C17: get_type_effectiveness returns the product over the defending types of
\* the chart multiplier of the pair (attacking type, defending type), 1 for a
\* pair the chart lacks and 1 for no defending type; upper and lower case
\* spellings give the same result; the result is 0 exactly when one pair has
\* multiplier 0.
C17_EffectivenessProduct ==
    calc.phase = "returned" =>
        LET n == Len(calc.target_types) IN
        /\ calc.result.den > 0
        /\ calc.result.num * Pow2(n)
              = ProductTwice(calc.move_type, calc.target_types) * calc.result.den
        /\ n = 0 => calc.result.num = calc.result.den
        /\ calc.result = calc.lowered
        /\ calc.result.num = 0
              <=> \E i \in 1..n : PairTwice(calc.move_type, calc.target_types[i]) = 0

\* a Ground move against a Flying and Fire target: immune (0) times 2.0 is 0
C17_Witness ==
    /\ calc.phase = "returned"
    /\ calc.move_type = "GROUND"
    /\ calc.target_types = <<"Flying", "Fire">>
    /\ calc.result.num = 0

\* the candidates of the call: the positions in the attacker's move list of
\* the moves it can pay for and that are not sacrificial
Candidates ==
    { i \in 1..Len(calc.attacker.pokemon.moves_sample) :
        /\ _get_move_energy_cost(calc.attacker.pokemon.moves_sample[i])
              <= calc.attacker.current_energy
        /\ Lower(calc.attacker.pokemon.moves_sample[i].name)
              \notin {"self-destruct", "explosion", "final-gambit"} }

\* the damage predicted for candidate i: the evaluation of the k-th candidate
\* draws the k-th random factor
Predicted(i) ==
    _calculate_damage(calc.attacker, calc.opponent,
                      calc.attacker.pokemon.moves_sample[i],
                      calc.rfs[Cardinality({ j \in Candidates : j <= i })]).damage

\* C18: with a non-empty candidate set, _select_move returns the first
\* candidate in list order whose predicted damage is the maximum over the
\* candidates (the first candidate when every prediction is 0), and the
\* energy cost of the move it returns is at most the attacker's energy.
C18_FirstMaximum ==
    (calc.phase = "returned" /\ Candidates # {}) =>
        /\ calc.result \in Candidates
        /\ \A j \in Candidates : Predicted(j) <= Predicted(calc.result)
        /\ \A j \in Candidates : j < calc.result => Predicted(j) < Predicted(calc.result)
        /\ (\A j \in Candidates : Predicted(j) = 0)
              => \A j \in Candidates : calc.result <= j
        /\ _get_move_energy_cost(calc.attacker.pokemon.moves_sample[calc.result])
              <= calc.attacker.current_energy

\* two candidates tie at the maximum behind a sacrificial move and the
\* earlier one is returned
C18_Witness ==
    /\ calc.phase = "returned"
    /\ calc.attacker.pokemon.moves_sample = <<Explosion, Tackle, Ember>>
    /\ calc.attacker.current_energy = MaxEnergy
    /\ Predicted(2) = Predicted(3)
    /\ Predicted(2) > 1
    /\ calc.result = 2

----------------------------------------------------------------------------
(* Properties of simulate_battle *)

\* C15: when a lookup returns not-found, simulate_battle returns at once an
\* error message naming the creature of that lookup and run_simulation is
\* not started; when the first creature is not found, the second is not
\* looked up.
C15_NotFoundAborts ==
    /\ \A i \in DOMAIN calc.lookups :
          ~calc.lookups[i].found =>
              /\ i = Len(calc.lookups)
              /\ calc.phase = "returned"
              /\ calc.result = <<"Error: Could not find data for Pokémon '",
                                 calc.lookups[i].name,
                                 "' to start the battle.">>
              /\ ~calc.started
    /\ (calc.lookups # <<>> /\ ~calc.lookups[1].found) =>
          calc.lookups = <<[name |-> calc.pokemon1, found |-> FALSE]>>
    /\ \A i \in DOMAIN calc.lookups :
          calc.lookups[i].name = IF i = 1 THEN calc.pokemon1 ELSE calc.pokemon2
    /\ calc.started => \A i \in DOMAIN calc.lookups : calc.lookups[i].found

\* the first creature is unknown while the second one is already cached
C15_Witness ==
    /\ calc.phase = "returned"
    /\ calc.pokemon1 = "Missingno"
    /\ calc.pokemon2 = "Toxo"
    /\ "toxo" \in calc.cache
    /\ calc.lookups = <<[name |-> "Missingno", found |-> FALSE]>>
    /\ calc.result[2] = "Missingno"

----------------------------------------------------------------------------
(* Properties of the rounds of run_simulation *)

\* C21: the post-turn ticks of a round are applied exactly when both
\* combatants have hp > 0 after the action phase, p1's and then p2's (p2's
\* also when p1's tick felled p1).  An attack that brings the defender to 0
\* hp ends the action phase at once, and that round nobody is ticked: the
\* round ends with both records as the attack left them.  Skips and Rests
\* do not end the action phase early and do not prevent the ticks.
C21_TicksIffBothSurvive ==
    /\ [][(pc = "post" /\ BothAlive) =>
             /\ last'.kind = "tick" /\ last'.actor = 1 /\ pc' = "tick2"
             /\ bp'[1].current_hp = _handle_post_turn_status(bp[1])
             /\ bp'[2] = bp[2]]_vars
    /\ [][pc = "tick2" =>
             /\ last'.kind = "tick" /\ last'.actor = 2 /\ pc' = "while"
             /\ bp'[2].current_hp = _handle_post_turn_status(bp[2])
             /\ bp'[1] = bp[1]]_vars
    /\ [][(pc = "post" /\ ~BothAlive) =>
             /\ last'.kind = "notick" /\ pc' = "while" /\ bp' = bp]_vars
    /\ [][last'.kind = "tick" =>
             \/ pc = "post" /\ BothAlive /\ last'.actor = 1
             \/ pc = "tick2" /\ last.kind = "tick" /\ last.actor = 1
                   /\ last'.actor = 2]_vars
    /\ [][(last'.kind = "attack" /\ bp'[Other(last'.actor)].current_hp = 0) =>
             pc' = "post" /\ ~BothAlive']_vars
    /\ [][(last'.kind \in {"skip", "rest", "attack"} /\ BothAlive') =>
             IF slot = 1 THEN pc' = "slot" /\ slot' = 2
             ELSE pc' = "post"]_vars
    /\ [](pc = "tick2" => last.kind = "tick" /\ last.actor = 1)

\* the first actor of the round, Poisoned or Burned, has felled the second
\* one and the round has ended without a tick
C21_Witness ==
    /\ pc = "while"
    /\ last.kind = "notick"
    /\ bp[first].current_hp > 0
    /\ bp[first].status \in {POISON, BURN}
    /\ bp[Other(first)].current_hp = 0

BothFainted == p1.current_hp = 0 /\ p2.current_hp = 0

\* the step that brings about BothFainted is p2's tick, right after p1's
\* tick has felled p1
FelledByTicks ==
    (~BothFainted /\ BothFainted') =>
        /\ pc = "tick2"
        /\ last.kind = "tick" /\ last.actor = 1 /\ last.damage > 0
        /\ bp[1].current_hp = 0
        /\ last'.kind = "tick" /\ last'.actor = 2 /\ last'.damage > 0
        /\ bp[2].status \in {POISON, BURN}

KnowsNonSacrificial(c) ==
    \E i \in 1..Len(bp[c].pokemon.moves_sample) :
        Lower(bp[c].pokemon.moves_sample[i].name)
            \notin {"self-destruct", "explosion", "final-gambit"}

\* C22: a combatant that knows a non-sacrificial move never Rests in two
\* consecutive slots of its own in which paralysis did not skip it: a Rest
\* leaves it with energy of at least 50, no move costs more than 40, and only
\* its own attack lowers its energy.
C22_NoTwoRestsInARow ==
    /\ [](\A c \in Combatants :
            KnowsNonSacrificial(c) => acted[c] # <<"rest", "rest">>)
    /\ [][last'.kind = "rest" => bp'[last'.actor].current_energy >= 50]_vars
    /\ [][\A c \in Combatants :
            bp'[c].current_energy < bp[c].current_energy
                => last'.kind = "attack" /\ last'.actor = c]_vars
    /\ [](\A c \in Combatants : \A i \in 1..Len(bp[c].pokemon.moves_sample) :
            _get_move_energy_cost(bp[c].pokemon.moves_sample[i]) <= 40)

\* a paralysed combatant has Rested and, in its next slot that was not
\* skipped, attacked
C22_Witness ==
    \E c \in Combatants :
        /\ KnowsNonSacrificial(c)
        /\ bp[c].status = PARALYSIS
        /\ acted[c] = <<"rest", "attack">>
        /\ last.kind = "attack" /\ last.actor = c

----------------------------------------------------------------------------
(* Properties of get_pokemon_details *)

Succeeded(i) == calc.calls[i].at = "done" /\ calc.calls[i].result # None

\* C24: every successful call returns the one record the cache holds for its
\* name in lower case, overlapping calls included; a call that finds its name
\* cached sends no request; an entry enters the cache only by a successful
\* call for that name.
C24_OneRecordPerName ==
    /\ \A i \in 1..MaxCalls :
          Succeeded(i) =>
              /\ Lower(calc.calls[i].name) \in DOMAIN calc.cache
              /\ calc.calls[i].result = Some(calc.cache[Lower(calc.calls[i].name)])
    /\ \A i \in 1..MaxCalls : calc.calls[i].hit => calc.calls[i].fetches = 0
    /\ \A k \in DOMAIN calc.cache \ DOMAIN calc.cache0 :
          \E i \in 1..MaxCalls : Succeeded(i) /\ Lower(calc.calls[i].name) = k

====
